---- MODULE Spec2Model ----
(***************************************************************************)
(* State-machine model of the Minesweeper program in src/main.py:          *)
(* the Board (grid, mine placement, neighbour counting, flood-fill reveal, *)
(* flag toggle, victory test), the GameState record, and the Game's event  *)
(* handlers and main loop (handle_events; update; render).                 *)
(*                                                                         *)
(* A tile is the dictionary of Board.create_board; the grid is indexed     *)
(* grid[y][x] as in the source.  The optional Game.game_state is a         *)
(* sequence of length 0 (None) or 1 (a GameState).                         *)
(***************************************************************************)
EXTENDS Integers, Sequences, FiniteSets, TLC

VARIABLES
    game_mode,    \* Game.game_mode: "MAIN_MENU" or "IN_GAME"
    config,       \* Game.config (shared with the Board): the active settings
    game_state,   \* Game.game_state: None or <<GameState>>
    pc            \* position of Game.run inside one iteration of its loop:
                  \* "handle_events" (then update) or "render"

vars == <<game_mode, config, game_state, pc>>

----------------------------------------------------------------------------
(* Constants of the source.                                                *)

TILE_SIZE == 30
PANEL_TOP_HEIGHT == 60
PANEL_SIDES_WIDTH == 40

(* Bounds of the model.                                                    *)

\* time.time() returns a positive instant; the model draws it from 1..MaxTime
MaxTime == 1

\* How many tile widths outside the grid a sampled mouse position may lie
MaxOutside == 1

(* GameConfig.DIFFICULTY_SETTINGS.  The three profiles of the source       *)
(* (12x9 with 10 mines, 18x14 with 40, 32x18 with 99) are far beyond       *)
(* exhaustive search, so the table keeps its shape with small boards: a    *)
(* 2x1 board with one mine, a mine-free 3x3 board and a 3x2 board with two *)
(* mines.                                                                  *)
DIFFICULTY_SETTINGS ==
    [ EASY   |-> [grid_width |-> 2, grid_height |-> 1, num_mines |-> 1],
      NORMAL |-> [grid_width |-> 3, grid_height |-> 3, num_mines |-> 0],
      HARD   |-> [grid_width |-> 3, grid_height |-> 2, num_mines |-> 2] ]

Difficulty == DOMAIN DIFFICULTY_SETTINGS

\* GameConfig(difficulty) / GameConfig.set_difficulty: the settings in force
GameConfig(difficulty) == DIFFICULTY_SETTINGS[difficulty]

None == << >>

----------------------------------------------------------------------------
(* Board                                                                   *)

Rows(cfg) == 0 .. (cfg.grid_height - 1)
Cols(cfg) == 0 .. (cfg.grid_width - 1)

InBounds(cfg, x, y) ==
    /\ 0 <= x /\ x < cfg.grid_width
    /\ 0 <= y /\ y < cfg.grid_height

\* Board.create_board
create_board(cfg) ==
    [y \in Rows(cfg) |-> [x \in Cols(cfg) |->
        [is_mine |-> FALSE, is_revealed |-> FALSE,
         is_flagged |-> FALSE, neighbor_mines |-> 0]]]

\* Faulty variants of MineCellAccepted: the protected cell is not excluded; a cell
\* that already holds a mine is accepted (and counted) again
MineCellAccepted_unprotected(grid, x, y, first_click_pos) ==
    ~grid[y][x].is_mine

MineCellAccepted_recounted(grid, x, y, first_click_pos) ==
    <<x, y>> # first_click_pos

\* The test of Board.place_mines that accepts a sampled cell
MineCellAccepted(grid, x, y, first_click_pos) ==
    <<x, y>> # first_click_pos /\ ~grid[y][x].is_mine

\* Board.place_mines: the grids the sampling loop can end with.  A rejected
\* sample changes nothing; an accepted one marks the cell and counts it.
RECURSIVE place_mines_loop(_, _, _, _)
place_mines_loop(cfg, grid, first_click_pos, mines_placed) ==
    IF ~(mines_placed < cfg.num_mines) THEN {grid}
    ELSE UNION { place_mines_loop(cfg,
                                  [grid EXCEPT ![c[2]][c[1]].is_mine = TRUE],
                                  first_click_pos, mines_placed + 1) :
                 c \in { d \in Cols(cfg) \X Rows(cfg) :
                             MineCellAccepted(grid, d[1], d[2], first_click_pos) } }

place_mines(cfg, grid, first_click_pos) ==
    place_mines_loop(cfg, grid, first_click_pos, 0)

\* A faulty variant of MineCount: the loops run over range(-1, 1), missing the
\* neighbours below and to the right
MineCount_short_range(cfg, grid, x, y) ==
    Cardinality({ d \in (-1 .. 0) \X (-1 .. 0) :
                    /\ InBounds(cfg, x + d[2], y + d[1])
                    /\ grid[y + d[1]][x + d[2]].is_mine })

\* The 3x3 window of Board.calculate_neighbor_mines, the cell itself included
MineCount(cfg, grid, x, y) ==
    Cardinality({ d \in (-1 .. 1) \X (-1 .. 1) :
                    /\ InBounds(cfg, x + d[2], y + d[1])
                    /\ grid[y + d[1]][x + d[2]].is_mine })

\* Board.calculate_neighbor_mines
calculate_neighbor_mines(cfg, grid) ==
    [y \in Rows(cfg) |-> [x \in Cols(cfg) |->
        IF ~grid[y][x].is_mine
        THEN [grid[y][x] EXCEPT !.neighbor_mines = MineCount(cfg, grid, x, y)]
        ELSE grid[y][x]]]

\* The (i, j) pairs of the nested loops of Board.reveal_tile, in loop order
NeighborOffsets ==
    << <<-1, -1>>, <<-1, 0>>, <<-1, 1>>,
       << 0, -1>>,            << 0, 1>>,
       << 1, -1>>, << 1, 0>>, << 1, 1>> >>

\* A faulty variant of PushNeighbors: the loops run over range(-1, 1), so only the
\* neighbours above and to the left are pushed
PushNeighbors_upleft(cfg, grid, x, y) ==
    LET Cell(o) == <<x + o[2], y + o[1]>>
        Keep(o) == /\ o[1] <= 0 /\ o[2] <= 0
                   /\ InBounds(cfg, x + o[2], y + o[1])
                   /\ ~grid[y + o[1]][x + o[2]].is_revealed
        kept == SelectSeq(NeighborOffsets, Keep)
    IN  [k \in 1 .. Len(kept) |-> Cell(kept[k])]

\* What the loops of Board.reveal_tile push for the zero-count tile (x, y)
PushNeighbors(cfg, grid, x, y) ==
    LET Cell(o) == <<x + o[2], y + o[1]>>
        Keep(o) == /\ InBounds(cfg, x + o[2], y + o[1])
                   /\ ~grid[y + o[1]][x + o[2]].is_revealed
        kept == SelectSeq(NeighborOffsets, Keep)
    IN  [k \in 1 .. Len(kept) |-> Cell(kept[k])]

\* A faulty variant of reveal_loop: the cascade goes on from every safe tile,
\* whatever its neighbor_mines
RECURSIVE reveal_loop_cascade_all(_, _, _)
reveal_loop_cascade_all(cfg, grid, stack) ==
    IF stack = << >> THEN grid
    ELSE LET top  == stack[Len(stack)]
             rest == SubSeq(stack, 1, Len(stack) - 1)
             x    == top[1]
             y    == top[2]
             tile == grid[y][x]
             shown == [grid EXCEPT ![y][x].is_revealed = TRUE]
         IN  IF tile.is_revealed \/ tile.is_flagged
             THEN reveal_loop_cascade_all(cfg, grid, rest)
             ELSE IF tile.is_mine
             THEN reveal_loop_cascade_all(cfg, shown, rest)
             ELSE reveal_loop_cascade_all(cfg, shown,
                                          rest \o PushNeighbors(cfg, shown, x, y))

\* A faulty variant of reveal_loop: a flagged tile popped from the stack is
\* revealed like any other
RECURSIVE reveal_loop_through_flags(_, _, _)
reveal_loop_through_flags(cfg, grid, stack) ==
    IF stack = << >> THEN grid
    ELSE LET top  == stack[Len(stack)]
             rest == SubSeq(stack, 1, Len(stack) - 1)
             x    == top[1]
             y    == top[2]
             tile == grid[y][x]
             shown == [grid EXCEPT ![y][x].is_revealed = TRUE]
         IN  IF tile.is_revealed
             THEN reveal_loop_through_flags(cfg, grid, rest)
             ELSE IF tile.is_mine
             THEN reveal_loop_through_flags(cfg, shown, rest)
             ELSE IF tile.neighbor_mines = 0
             THEN reveal_loop_through_flags(cfg, shown,
                                            rest \o PushNeighbors(cfg, shown, x, y))
             ELSE reveal_loop_through_flags(cfg, shown, rest)

\* The while loop of Board.reveal_tile over its explicit stack
RECURSIVE reveal_loop(_, _, _)
reveal_loop(cfg, grid, stack) ==
    IF stack = << >> THEN grid
    ELSE LET top  == stack[Len(stack)]
             rest == SubSeq(stack, 1, Len(stack) - 1)
             x    == top[1]
             y    == top[2]
             tile == grid[y][x]
             shown == [grid EXCEPT ![y][x].is_revealed = TRUE]
         IN  IF tile.is_revealed \/ tile.is_flagged
             THEN reveal_loop(cfg, grid, rest)
             ELSE IF tile.is_mine
             THEN reveal_loop(cfg, shown, rest)
             ELSE IF tile.neighbor_mines = 0
             THEN reveal_loop(cfg, shown, rest \o PushNeighbors(cfg, shown, x, y))
             ELSE reveal_loop(cfg, shown, rest)

\* Board.reveal_tile
reveal_tile(cfg, grid, x, y) ==
    IF ~InBounds(cfg, x, y) THEN grid
    ELSE reveal_loop(cfg, grid, << <<x, y>> >>)

\* A faulty variant of reveal_all_mines: a flagged mine is left hidden
reveal_all_mines_unflagged(cfg, grid) ==
    [y \in Rows(cfg) |-> [x \in Cols(cfg) |->
        IF grid[y][x].is_mine /\ ~grid[y][x].is_flagged
        THEN [grid[y][x] EXCEPT !.is_revealed = TRUE]
        ELSE grid[y][x]]]

\* A faulty variant of reveal_all_mines: the mines are shown and every other
\* tile is hidden again
reveal_all_mines_only(cfg, grid) ==
    [y \in Rows(cfg) |-> [x \in Cols(cfg) |->
        [grid[y][x] EXCEPT !.is_revealed = grid[y][x].is_mine]]]

\* A faulty variant of reveal_all_mines: every tile of the board is shown
reveal_all_mines_everything(cfg, grid) ==
    [y \in Rows(cfg) |-> [x \in Cols(cfg) |->
        [grid[y][x] EXCEPT !.is_revealed = TRUE]]]

\* Board.reveal_all_mines
reveal_all_mines(cfg, grid) ==
    [y \in Rows(cfg) |-> [x \in Cols(cfg) |->
        IF grid[y][x].is_mine
        THEN [grid[y][x] EXCEPT !.is_revealed = TRUE]
        ELSE grid[y][x]]]

\* A faulty variant of toggle_flag: the is_revealed test is missing
toggle_flag_any_tile(cfg, grid, x, y) ==
    IF InBounds(cfg, x, y)
    THEN [grid EXCEPT ![y][x].is_flagged = ~grid[y][x].is_flagged]
    ELSE grid

\* Board.toggle_flag (the grid it leaves; the returned flag is never read)
toggle_flag(cfg, grid, x, y) ==
    IF InBounds(cfg, x, y) /\ ~grid[y][x].is_revealed
    THEN [grid EXCEPT ![y][x].is_flagged = ~grid[y][x].is_flagged]
    ELSE grid

\* A faulty variant of check_victory: every tile, mines included, must be revealed
check_victory_all_tiles(cfg, grid) ==
    \A y \in Rows(cfg) : \A x \in Cols(cfg) : grid[y][x].is_revealed

\* Board.check_victory
check_victory(cfg, grid) ==
    \A y \in Rows(cfg) : \A x \in Cols(cfg) :
        ~(~grid[y][x].is_mine /\ ~grid[y][x].is_revealed)

\* Board.count_flags
count_flags(cfg, grid) ==
    Cardinality({ c \in Cols(cfg) \X Rows(cfg) : grid[c[2]][c[1]].is_flagged })

----------------------------------------------------------------------------
(* GameState                                                               *)

\* GameState.__init__ and GameState.reset build the same record
NewGameState(cfg) ==
    [board |-> create_board(cfg), first_click |-> TRUE,
     game_over |-> FALSE, game_won |-> FALSE, start_time |-> 0]

\* A faulty variant of reset: the clock of the old session is kept
reset_keeps_time(cfg, gs) ==
    [gs EXCEPT !.board = create_board(cfg),
               !.first_click = TRUE,
               !.game_over = FALSE,
               !.game_won = FALSE]

\* GameState.reset
reset(cfg, gs) ==
    [gs EXCEPT !.board = create_board(cfg),
               !.first_click = TRUE,
               !.game_over = FALSE,
               !.game_won = FALSE,
               !.start_time = 0]

\* The instants time.time() can return
Times == 1 .. MaxTime

\* A faulty variant of handle_first_click: first_click is never cleared, so
\* every later click places mines again
handle_first_click_rearm(cfg, gs, x, y) ==
    IF gs.first_click
    THEN UNION { { [gs EXCEPT !.start_time = now,
                              !.board = calculate_neighbor_mines(cfg, placed)] :
                   placed \in place_mines(cfg, gs.board, <<x, y>>) } :
                 now \in Times }
    ELSE {gs}

\* GameState.handle_first_click: the states it can leave, one for every
\* instant time.time() returns and every grid place_mines ends with
handle_first_click(cfg, gs, x, y) ==
    IF gs.first_click
    THEN UNION { { [gs EXCEPT !.start_time = now,
                              !.board = calculate_neighbor_mines(cfg, placed),
                              !.first_click = FALSE] :
                   placed \in place_mines(cfg, gs.board, <<x, y>>) } :
                 now \in Times }
    ELSE {gs}

\* A faulty variant of get_mines_left: the metric is clamped at zero
get_mines_left_clamped(cfg, gs) ==
    IF cfg.num_mines - count_flags(cfg, gs.board) < 0 THEN 0
    ELSE cfg.num_mines - count_flags(cfg, gs.board)

\* GameState.get_mines_left
get_mines_left(cfg, gs) == cfg.num_mines - count_flags(cfg, gs.board)

----------------------------------------------------------------------------
(* Game                                                                    *)

\* A faulty variant of TileX: the quotient is truncated towards zero, as
\* int(d / TILE_SIZE) would, so the column left of the grid becomes column 0
TileX_truncated(px) ==
    IF px - PANEL_SIDES_WIDTH >= 0
    THEN (px - PANEL_SIDES_WIDTH) \div TILE_SIZE
    ELSE 0 - ((PANEL_SIDES_WIDTH - px) \div TILE_SIZE)

\* The tile column / row Game.handle_game_events derives from a mouse position
TileX(px) == (px - PANEL_SIDES_WIDTH) \div TILE_SIZE
TileY(py) == (py - PANEL_TOP_HEIGHT) \div TILE_SIZE

\* The mouse position at the centre of tile column x / tile row y, as
\* UIRenderer.draw_board lays the tiles out
CentreX(x) == PANEL_SIDES_WIDTH + x * TILE_SIZE + TILE_SIZE \div 2
CentreY(y) == PANEL_TOP_HEIGHT + y * TILE_SIZE + TILE_SIZE \div 2

\* Sampled mouse positions: the centre of every tile column / row, and of
\* MaxOutside columns / rows beyond each edge of the grid
MouseXs(cfg) ==
    { CentreX(k) : k \in (0 - MaxOutside) .. (cfg.grid_width - 1 + MaxOutside) }
MouseYs(cfg) ==
    { CentreY(k) : k \in (0 - MaxOutside) .. (cfg.grid_height - 1 + MaxOutside) }

\* A faulty variant of LeftClickTile: the loss test does not look at the flag
LeftClickTile_flag_ignored(cfg, gs, x, y) ==
    { LET shown == [first EXCEPT !.board = reveal_tile(cfg, first.board, x, y)]
          tile  == shown.board[y][x]
      IN  IF tile.is_mine
          THEN [shown EXCEPT !.game_over = TRUE,
                             !.board = reveal_all_mines(cfg, shown.board)]
          ELSE shown :
      first \in handle_first_click(cfg, gs, x, y) }

\* The left-click branch of Game.handle_game_events on tile (x, y)
LeftClickTile(cfg, gs, x, y) ==
    { LET shown == [first EXCEPT !.board = reveal_tile(cfg, first.board, x, y)]
          tile  == shown.board[y][x]
      IN  IF tile.is_mine /\ ~tile.is_flagged
          THEN [shown EXCEPT !.game_over = TRUE,
                             !.board = reveal_all_mines(cfg, shown.board)]
          ELSE shown :
      first \in handle_first_click(cfg, gs, x, y) }

\* The right-click branch of Game.handle_game_events on tile (x, y)
RightClickTile(cfg, gs, x, y) ==
    { [gs EXCEPT !.board = toggle_flag(cfg, gs.board, x, y)] }

\* A faulty variant of BoardClick: the test of game_over and game_won is missing
BoardClick_after_end(cfg, gs, button, px, py) ==
    LET x == TileX(px)
        y == TileY(py)
    IN  IF InBounds(cfg, x, y)
        THEN IF button = 1 THEN LeftClickTile(cfg, gs, x, y)
             ELSE IF button = 3 THEN RightClickTile(cfg, gs, x, y)
             ELSE {gs}
        ELSE {gs}

\* The board part of Game.handle_game_events: a button pressed at (px, py)
\* outside the two UI buttons
BoardClick(cfg, gs, button, px, py) ==
    IF ~gs.game_over /\ ~gs.game_won
    THEN LET x == TileX(px)
             y == TileY(py)
         IN  IF InBounds(cfg, x, y)
             THEN IF button = 1 THEN LeftClickTile(cfg, gs, x, y)
                  ELSE IF button = 3 THEN RightClickTile(cfg, gs, x, y)
                  ELSE {gs}
             ELSE {gs}
    ELSE {gs}

Init ==
    /\ game_mode = "MAIN_MENU"
    /\ config = GameConfig("EASY")
    /\ game_state = None
    /\ pc = "handle_events"

\* Game.handle_main_menu_events -> Game.start_game: a difficulty button
StartGame(difficulty) ==
    /\ pc = "handle_events"
    /\ game_mode = "MAIN_MENU"
    /\ config' = GameConfig(difficulty)
    /\ game_state' = << NewGameState(GameConfig(difficulty)) >>
    /\ game_mode' = "IN_GAME"
    /\ UNCHANGED pc

\* Game.handle_game_events: left click on the main-menu button
ReturnToMenu ==
    /\ pc = "handle_events"
    /\ game_mode = "IN_GAME"
    /\ game_state # None
    /\ game_mode' = "MAIN_MENU"
    /\ game_state' = None
    /\ UNCHANGED <<config, pc>>

\* Game.handle_game_events: left click on the restart button
RestartGame ==
    /\ pc = "handle_events"
    /\ game_mode = "IN_GAME"
    /\ game_state # None
    /\ game_state' = << reset(config, game_state[1]) >>
    /\ UNCHANGED <<game_mode, config, pc>>

\* Game.handle_game_events: a mouse button pressed over the board area
\* (px, py) is what pygame.mouse.get_pos() returns while this event is handled:
\* the pointer is read once per event, not once per frame
MouseDown(button, px, py) ==
    /\ pc = "handle_events"
    /\ game_mode = "IN_GAME"
    /\ game_state # None
    /\ \E gs \in BoardClick(config, game_state[1], button, px, py) :
         game_state' = << gs >>
    /\ UNCHANGED <<game_mode, config, pc>>

\* A faulty variant of Update: the test of game_over is missing
Update_after_loss ==
    /\ pc = "handle_events"
    /\ pc' = "render"
    /\ IF game_mode = "IN_GAME" /\ game_state # None
       THEN LET gs == game_state[1]
            IN  IF ~gs.first_click /\ ~gs.game_won
                   /\ check_victory(config, gs.board)
                THEN game_state' = << [gs EXCEPT !.game_won = TRUE] >>
                ELSE UNCHANGED game_state
       ELSE UNCHANGED game_state
    /\ UNCHANGED <<game_mode, config>>

\* Game.update, run when the event queue of the frame is exhausted
Update ==
    /\ pc = "handle_events"
    /\ pc' = "render"
    /\ IF game_mode = "IN_GAME" /\ game_state # None
       THEN LET gs == game_state[1]
            IN  IF ~gs.game_over /\ ~gs.first_click /\ ~gs.game_won
                   /\ check_victory(config, gs.board)
                THEN game_state' = << [gs EXCEPT !.game_won = TRUE] >>
                ELSE UNCHANGED game_state
       ELSE UNCHANGED game_state
    /\ UNCHANGED <<game_mode, config>>

\* Game.render and clock.tick: the frame is shown, the loop starts over
Render ==
    /\ pc = "render"
    /\ pc' = "handle_events"
    /\ UNCHANGED <<game_mode, config, game_state>>

Next ==
    \/ \E d \in Difficulty : StartGame(d)
    \/ ReturnToMenu
    \/ RestartGame
    \/ \E button \in 1 .. 3 : \E px \in MouseXs(config) : \E py \in MouseYs(config) :
          MouseDown(button, px, py)
    \/ Update
    \/ Render

Spec == Init /\ [][Next]_vars

----------------------------------------------------------------------------
(* Neighbour counting on arbitrary mine layouts.  SpecCount starts inside  *)
(* GameState.handle_first_click, after place_mines and before              *)
(* calculate_neighbor_mines, with any set of mines on any grid of at most  *)
(* CountW x CountH tiles, and takes the one step that counts.              *)

CountW == 3
CountH == 3

\* The fresh grid of cfg with exactly the cells of mines marked
LayoutGrid(cfg, mines) ==
    [y \in Rows(cfg) |-> [x \in Cols(cfg) |->
        [create_board(cfg)[y][x] EXCEPT !.is_mine = (<<x, y>> \in mines)]]]

InitCount ==
    /\ game_mode = "IN_GAME"
    /\ pc = "calculate_neighbor_mines"
    /\ \E w \in 1 .. CountW : \E h \in 1 .. CountH :
         \E mines \in SUBSET ((0 .. (w - 1)) \X (0 .. (h - 1))) :
            /\ config = [grid_width |-> w, grid_height |-> h,
                         num_mines |-> Cardinality(mines)]
            /\ \E now \in Times :
                 game_state = << [NewGameState(config) EXCEPT
                                    !.board = LayoutGrid(config, mines),
                                    !.start_time = now] >>

CountNeighbors ==
    /\ pc = "calculate_neighbor_mines"
    /\ pc' = "counted"
    /\ game_state' = << [game_state[1] EXCEPT
                           !.board = calculate_neighbor_mines(config, @),
                           !.first_click = FALSE] >>
    /\ UNCHANGED <<game_mode, config>>

NextCount == CountNeighbors

SpecCount == InitCount /\ [][NextCount]_vars

----------------------------------------------------------------------------
(* Construction and mine placement, step by step.  SpecPlace builds a      *)
(* session for any settings of at most PlaceW x PlaceH tiles and           *)
(* PlaceMines mines (non-positive sizes and num_mines >= width * height    *)
(* included), takes the first in-bounds left click and then runs the       *)
(* while loop of Board.place_mines one sample at a time.  Here pc is a     *)
(* record: where the program is, and inside place_mines the locals         *)
(* first_click_pos and mines_placed.                                       *)

PlaceW == 3
PlaceH == 2
PlaceMines == 3

\* A faulty variant of SampleCells: the upper ends are excluded, as
\* random.randrange(0, grid_width - 1) would
SampleCells_short(cfg) ==
    (0 .. (cfg.grid_width - 2)) \X (0 .. (cfg.grid_height - 2))

\* The cells the two random.randint calls of Board.place_mines can return
SampleCells(cfg) ==
    (0 .. (cfg.grid_width - 1)) \X (0 .. (cfg.grid_height - 1))

InitPlace ==
    /\ game_mode = "MAIN_MENU"
    /\ game_state = None
    /\ pc = [at |-> "start_game"]
    /\ config \in [grid_width : -1 .. PlaceW, grid_height : -1 .. PlaceH,
                   num_mines : 0 .. PlaceMines]

\* Game.start_game: GameState(config), whose Board.__init__ only builds the grid
ConstructSession ==
    /\ pc.at = "start_game"
    /\ game_state' = << NewGameState(config) >>
    /\ game_mode' = "IN_GAME"
    /\ pc' = [at |-> "handle_events"]
    /\ UNCHANGED config

\* The first left click, up to the entry of Board.place_mines
FirstLeftClick(x, y) ==
    /\ pc.at = "handle_events"
    /\ game_mode = "IN_GAME" /\ game_state # None
    /\ ~game_state[1].game_over /\ ~game_state[1].game_won
    /\ InBounds(config, x, y)
    /\ game_state[1].first_click
    /\ \E now \in Times :
         game_state' = << [game_state[1] EXCEPT !.start_time = now] >>
    /\ pc' = [at |-> "place_mines", first_click_pos |-> <<x, y>>,
              mines_placed |-> 0]
    /\ UNCHANGED <<game_mode, config>>

\* One iteration of the while loop of Board.place_mines, sampling (x, y)
SampleCell(x, y) ==
    /\ pc.at = "place_mines"
    /\ pc.mines_placed < config.num_mines
    /\ <<x, y>> \in SampleCells(config)
    /\ IF MineCellAccepted(game_state[1].board, x, y, pc.first_click_pos)
       THEN /\ game_state' = << [game_state[1] EXCEPT
                                   !.board[y][x].is_mine = TRUE] >>
            /\ pc' = [pc EXCEPT !.mines_placed = @ + 1]
       ELSE UNCHANGED <<game_state, pc>>
    /\ UNCHANGED <<game_mode, config>>

\* The loop of Board.place_mines ends; GameState.handle_first_click goes on
\* to count the neighbours and to clear first_click
FinishFirstClick ==
    /\ pc.at = "place_mines"
    /\ ~(pc.mines_placed < config.num_mines)
    /\ game_state' = << [game_state[1] EXCEPT
                           !.board = calculate_neighbor_mines(config, @),
                           !.first_click = FALSE] >>
    /\ pc' = [at |-> "reveal_tile"]
    /\ UNCHANGED <<game_mode, config>>

NextPlace ==
    \/ ConstructSession
    \/ \E x \in -1 .. PlaceW : \E y \in -1 .. PlaceH : FirstLeftClick(x, y)
    \/ \E x \in 0 .. (PlaceW - 1) : \E y \in 0 .. (PlaceH - 1) : SampleCell(x, y)
    \/ FinishFirstClick

\* The sampler is fair: a cell that stays acceptable is eventually drawn
SpecPlace ==
    /\ InitPlace
    /\ [][NextPlace]_vars
    /\ \A x \in 0 .. (PlaceW - 1) : \A y \in 0 .. (PlaceH - 1) :
          WF_vars(SampleCell(x, y))

----------------------------------------------------------------------------
(* Vocabulary of the properties.                                           *)

InSession == game_mode = "IN_GAME" /\ game_state # None
GS == game_state[1]
Cells(cfg) == Cols(cfg) \X Rows(cfg)
InProgress == InSession /\ ~GS.game_over /\ ~GS.game_won
Armed == InSession /\ ~GS.first_click

MineCells(cfg, grid) == { c \in Cells(cfg) : grid[c[2]][c[1]].is_mine }
FlaggedCells(cfg, grid) == { c \in Cells(cfg) : grid[c[2]][c[1]].is_flagged }
RevealedCells(cfg, grid) == { c \in Cells(cfg) : grid[c[2]][c[1]].is_revealed }

AllMinesRevealed(cfg, grid) == MineCells(cfg, grid) \subseteq RevealedCells(cfg, grid)
AllSafeRevealed(cfg, grid) ==
    (Cells(cfg) \ MineCells(cfg, grid)) \subseteq RevealedCells(cfg, grid)

\* The step is a left / right click at the centre of tile (x, y)
LeftClickAt(x, y) == MouseDown(1, CentreX(x), CentreY(y))
RightClickAt(x, y) == MouseDown(3, CentreX(x), CentreY(y))

\* The in-bounds neighbours of c, c excluded
Neighbours(cfg, c) ==
    { n \in Cells(cfg) : /\ n # c
                         /\ n[1] - c[1] \in -1 .. 1
                         /\ n[2] - c[2] \in -1 .. 1 }

----------------------------------------------------------------------------
(* C1: with the mines armed and the game in progress, a left click on an   *)
(* in-bounds unflagged mine tile sets game_over and leaves every mine tile *)
(* revealed.                                                               *)
C1_LossDetection ==
    [][ \A c \in Cells(config) :
          ( /\ Armed /\ InProgress
            /\ GS.board[c[2]][c[1]].is_mine
            /\ ~GS.board[c[2]][c[1]].is_flagged
            /\ LeftClickAt(c[1], c[2]) )
          => /\ game_state'[1].game_over
             /\ AllMinesRevealed(config, game_state'[1].board) ]_vars

\* A lost session of the two-mine board, one mine flagged before the loss
C1_Witness ==
    /\ InSession /\ GS.game_over
    /\ config.num_mines = 2
    /\ AllMinesRevealed(config, GS.board)
    /\ MineCells(config, GS.board) \cap FlaggedCells(config, GS.board) # {}

(* C2: in every frame shown after Game.update, in a session whose reveals  *)
(* hit no mine, game_won holds exactly when every non-mine tile is         *)
(* revealed; on the 2x1 board with one mine that is as soon as its one     *)
(* non-mine tile is revealed.                                              *)
C2_WinDetection ==
    (pc = "render" /\ Armed /\ ~GS.game_over)
    => /\ GS.game_won <=> AllSafeRevealed(config, GS.board)
       /\ ( /\ config.grid_width = 2 /\ config.grid_height = 1
            /\ config.num_mines = 1
            /\ RevealedCells(config, GS.board) # {} )
          => GS.game_won

\* The 2x1 board, won, its mine still hidden
C2_Witness ==
    /\ pc = "render" /\ Armed /\ GS.game_won
    /\ config.grid_width = 2 /\ config.grid_height = 1
    /\ Cardinality(RevealedCells(config, GS.board)) = 1

(* C3: no reveal or flag action is processed in a state where every        *)
(* non-mine tile is already revealed and the outcome is still in progress. *)
C3_VictoryCheckedBetweenActions ==
    [][ \A c \in Cells(config) :
          ( /\ InProgress
            /\ (LeftClickAt(c[1], c[2]) \/ RightClickAt(c[1], c[2])) )
          => ~(Armed /\ AllSafeRevealed(config, GS.board)) ]_vars

(* C4: from a state with game_over or game_won, every step leaves the      *)
(* session as it is (board and outcome) or replaces it: by a fresh session *)
(* on restart, by none on the way back to the menu.                        *)
C4_TerminalNoOp ==
    [][ (InSession /\ (GS.game_over \/ GS.game_won))
        => \/ game_state' = game_state
           \/ game_state' = << NewGameState(config) >>
           \/ game_state' = None ]_vars

\* A lost session with a tile never touched
C4_Witness ==
    /\ InSession /\ GS.game_over
    /\ \E c \in Cells(config) : /\ ~GS.board[c[2]][c[1]].is_revealed
                                /\ ~GS.board[c[2]][c[1]].is_flagged

(* C5: the first reveal of a session, on any tile and for any outcome of   *)
(* the placement, leaves that tile free of a mine and the session not      *)
(* lost.                                                                   *)
C5_FirstMoveSafety ==
    [][ \A c \in Cells(config) :
          \/ /\ game_state' # None /\ config' = config
             /\ ~game_state'[1].board[c[2]][c[1]].is_mine
             /\ ~game_state'[1].game_over
          \/ ~( /\ InProgress /\ GS.first_click
                /\ LeftClickAt(c[1], c[2]) ) ]_vars

\* Armed by a first click that is revealed, with both mines of the 3x2
\* board placed around it
C5_Witness ==
    /\ Armed /\ ~GS.game_over
    /\ config.num_mines = 2
    /\ Cardinality(RevealedCells(config, GS.board)) = 1

(* C6: once the mines are placed exactly num_mines tiles are mines, and no *)
(* later step of the session changes any tile's is_mine.                   *)
C6_MineCount ==
    /\ [](Armed => Cardinality(MineCells(config, GS.board)) = config.num_mines)
    /\ [][ (Armed /\ game_state' # None /\ ~game_state'[1].first_click)
           => MineCells(config, game_state'[1].board) = MineCells(config, GS.board) ]_vars

\* Two mines on the board, a tile revealed and another flagged since
C6_Witness ==
    /\ Armed
    /\ Cardinality(MineCells(config, GS.board)) = 2
    /\ RevealedCells(config, GS.board) # {}
    /\ FlaggedCells(config, GS.board) # {}

(* C7: no tile is both revealed and flagged.                               *)
C7_NoRevealedFlagged ==
    InSession => RevealedCells(config, GS.board) \cap FlaggedCells(config, GS.board) = {}

(* C8: after neighbour counting, on every mine layout, every non-mine tile *)
(* carries the number of mines among its in-bounds 8-neighbours; with      *)
(* mines at (0,0) and (2,2) of a 3x3 grid the centre carries 2.            *)
C8_NeighborCounts ==
    pc = "counted"
    => /\ \A c \in Cells(config) \ MineCells(config, GS.board) :
            GS.board[c[2]][c[1]].neighbor_mines =
                Cardinality(Neighbours(config, c) \cap MineCells(config, GS.board))
       /\ ( /\ config.grid_width = 3 /\ config.grid_height = 3
            /\ MineCells(config, GS.board) = { <<0, 0>>, <<2, 2>> } )
          => GS.board[1][1].neighbor_mines = 2

\* The counted 3x3 grid with mines at (0,0) and (2,2)
C8_Witness ==
    /\ pc = "counted"
    /\ config.grid_width = 3 /\ config.grid_height = 3
    /\ MineCells(config, GS.board) = { <<0, 0>>, <<2, 2>> }
    /\ GS.board[1][1].neighbor_mines = 2

(* C9, as stated: on a board without mines and without flags, one left     *)
(* click on any tile ends with every tile revealed.                        *)
C9_CascadeRevealsAll_AnyBoard ==
    [][ ( /\ InProgress
          /\ config.num_mines = 0
          /\ FlaggedCells(config, GS.board) = {}
          /\ \E c \in Cells(config) : LeftClickAt(c[1], c[2]) )
        => RevealedCells(config, game_state'[1].board) = Cells(config) ]_vars

(* C9, amended: on a board without mines, without flags and with no tile   *)
(* revealed yet, one left click on any tile ends with every tile revealed. *)
C9_CascadeRevealsAll ==
    [][ ( /\ InProgress
          /\ config.num_mines = 0
          /\ FlaggedCells(config, GS.board) = {}
          /\ RevealedCells(config, GS.board) = {}
          /\ \E c \in Cells(config) : LeftClickAt(c[1], c[2]) )
        => RevealedCells(config, game_state'[1].board) = Cells(config) ]_vars

\* The mine-free 3x3 board, fully revealed with no flag on it
C9_Witness ==
    /\ Armed
    /\ config.num_mines = 0 /\ config.grid_width = 3 /\ config.grid_height = 3
    /\ RevealedCells(config, GS.board) = Cells(config)
    /\ FlaggedCells(config, GS.board) = {}
    /\ ~GS.game_won

(* C10: toggle_flag on a revealed tile leaves the board unchanged; on an   *)
(* unrevealed, unflagged tile one toggle flags it and a second toggle      *)
(* gives back the board before the first.                                  *)
C10_FlagToggle ==
    InSession
    => \A c \in Cells(config) :
         LET tile == GS.board[c[2]][c[1]]
             once == toggle_flag(config, GS.board, c[1], c[2])
             twice == toggle_flag(config, once, c[1], c[2])
         IN  /\ tile.is_revealed => once = GS.board
             /\ (~tile.is_revealed /\ ~tile.is_flagged)
                  => /\ once = [GS.board EXCEPT ![c[2]][c[1]].is_flagged = TRUE]
                     /\ twice = GS.board

\* A session in progress with a revealed tile, a flagged tile and a plain one
C10_Witness ==
    /\ InProgress /\ Armed
    /\ RevealedCells(config, GS.board) # {}
    /\ FlaggedCells(config, GS.board) # {}
    /\ Cells(config) \ (RevealedCells(config, GS.board) \cup FlaggedCells(config, GS.board)) # {}

(* C11: a reveal or flag action at a mouse position outside the grid       *)
(* leaves the session (board, first_click, start_time, outcome) as it is.  *)
OutsideGrid(cfg, px, py) ==
    \/ px < PANEL_SIDES_WIDTH
    \/ px >= PANEL_SIDES_WIDTH + cfg.grid_width * TILE_SIZE
    \/ py < PANEL_TOP_HEIGHT
    \/ py >= PANEL_TOP_HEIGHT + cfg.grid_height * TILE_SIZE

C11_OutOfBoundsNoOp ==
    [][ \/ game_state' = game_state
        \/ ~( /\ InSession
              /\ \E button \in {1, 3} :
                   \E px \in MouseXs(config) : \E py \in MouseYs(config) :
                      /\ OutsideGrid(config, px, py)
                      /\ MouseDown(button, px, py) ) ]_vars

\* A session still awaiting its first reveal, with a flag set: any click
\* outside the grid has left it so
C11_Witness ==
    /\ InProgress /\ GS.first_click /\ GS.start_time = 0
    /\ FlaggedCells(config, GS.board) # {}

(* C12: the mines-remaining metric is num_mines minus the number of        *)
(* flagged tiles, also when that is negative.                              *)
C12_MinesLeft ==
    InSession
    => get_mines_left(config, GS) =
          config.num_mines - Cardinality(FlaggedCells(config, GS.board))

\* More tiles flagged than there are mines: the metric is negative
C12_Witness ==
    /\ InSession
    /\ Cardinality(FlaggedCells(config, GS.board)) > config.num_mines
    /\ get_mines_left(config, GS) < 0

(* C13: a session whose settings have num_mines >= width * height or a     *)
(* non-positive size is refused at construction: no such session exists,   *)
(* and none reaches mine placement.                                        *)
InvalidConfig(cfg) ==
    \/ cfg.grid_width <= 0
    \/ cfg.grid_height <= 0
    \/ cfg.num_mines >= cfg.grid_width * cfg.grid_height

C13_InvalidConfigRefused ==
    InvalidConfig(config) => (game_state = None /\ pc.at # "place_mines")

(* C14: with a fair sampler, whenever place_mines runs with                *)
(* num_mines < width * height its loop reaches mines_placed = num_mines.   *)
C14_PlacementTerminates ==
    (pc.at = "place_mines"
        /\ config.num_mines < config.grid_width * config.grid_height)
    ~> (pc.at = "place_mines" /\ pc.mines_placed = config.num_mines)

\* The loop has placed every mine of the fullest valid 3x2 board
C14_Witness ==
    /\ pc.at = "place_mines"
    /\ config.grid_width = 3 /\ config.grid_height = 2
    /\ config.num_mines = 3
    /\ pc.mines_placed = 3
    /\ Cardinality(MineCells(config, GS.board)) = 3
    /\ ~GS.board[pc.first_click_pos[2]][pc.first_click_pos[1]].is_mine

(* C15: on an armed board, for every in-bounds, unrevealed, unflagged,     *)
(* non-mine target, the tiles newly revealed by reveal_tile are exactly    *)
(* the reference flood fill: the least set that contains the target and,   *)
(* for each member with neighbor_mines = 0, all its in-bounds neighbours   *)
(* that are unrevealed and unflagged; every other tile keeps is_revealed.  *)
FloodStep(cfg, grid, S) ==
    S \cup { n \in Cells(cfg) :
                /\ ~grid[n[2]][n[1]].is_revealed
                /\ ~grid[n[2]][n[1]].is_flagged
                /\ \E m \in S : /\ grid[m[2]][m[1]].neighbor_mines = 0
                                /\ n \in Neighbours(cfg, m) }

RECURSIVE FloodFrom(_, _, _)
FloodFrom(cfg, grid, S) ==
    IF FloodStep(cfg, grid, S) = S THEN S
    ELSE FloodFrom(cfg, grid, FloodStep(cfg, grid, S))

FloodFill(cfg, grid, c) == FloodFrom(cfg, grid, {c})

RevealTargets(cfg, grid) ==
    { c \in Cells(cfg) : /\ ~grid[c[2]][c[1]].is_revealed
                         /\ ~grid[c[2]][c[1]].is_flagged
                         /\ ~grid[c[2]][c[1]].is_mine }

C15_FloodFill ==
    Armed =>
      \A c \in RevealTargets(config, GS.board) :
         LET after == reveal_tile(config, GS.board, c[1], c[2])
         IN  /\ RevealedCells(config, after) \ RevealedCells(config, GS.board)
                  = FloodFill(config, GS.board, c)
             /\ RevealedCells(config, GS.board) \subseteq RevealedCells(config, after)

\* An armed board with a target whose flood fill cascades over several tiles
\* and is stopped by a flagged tile next to one of its zero-count members
C15_Witness ==
    /\ Armed
    /\ \E c \in RevealTargets(config, GS.board) :
          LET fill == FloodFill(config, GS.board, c)
          IN  /\ Cardinality(fill) > 1
              /\ \E m \in fill : \E n \in Neighbours(config, m) :
                    /\ GS.board[m[2]][m[1]].neighbor_mines = 0
                    /\ GS.board[n[2]][n[1]].is_flagged
                    /\ ~GS.board[n[2]][n[1]].is_revealed
              /\ RevealedCells(config, reveal_tile(config, GS.board, c[1], c[2]))
                    = RevealedCells(config, GS.board) \cup fill

(* C16: once the mines are armed, a left click on a flagged tile or on an  *)
(* already revealed tile leaves the whole session (board and outcome)      *)
(* unchanged, also when the flagged tile is a mine.                        *)
C16_RevealNoOp ==
    [][ \/ game_state' = game_state
        \/ ~( /\ Armed
              /\ \E c \in Cells(config) :
                    /\ \/ GS.board[c[2]][c[1]].is_flagged
                       \/ GS.board[c[2]][c[1]].is_revealed
                    /\ LeftClickAt(c[1], c[2]) ) ]_vars

\* A session in progress with a flagged mine and a revealed tile to click on
C16_Witness ==
    /\ Armed /\ InProgress
    /\ FlaggedCells(config, GS.board) \cap MineCells(config, GS.board) # {}
    /\ RevealedCells(config, GS.board) # {}

(* C17: mine placement followed by neighbour counting happens exactly once *)
(* per session, on the first in-bounds left click and before any tile is   *)
(* revealed: while first_click holds no tile is a mine and no tile is      *)
(* revealed; first_click is cleared by in-bounds left clicks only, and by  *)
(* every one of them, leaving num_mines mines, the counts of the safe      *)
(* tiles right and no mine revealed; afterwards the mines and the counts   *)
(* never change; right clicks never clear first_click.                     *)
C17_AwaitingFirstMove ==
    (InSession /\ GS.first_click)
    => /\ MineCells(config, GS.board) = {}
       /\ RevealedCells(config, GS.board) = {}
       /\ \A c \in Cells(config) :
             /\ \A gs \in BoardClick(config, GS, 1, CentreX(c[1]), CentreY(c[2])) :
                   ~gs.first_click
             /\ \A gs \in BoardClick(config, GS, 3, CentreX(c[1]), CentreY(c[2])) :
                   gs.first_click

C17_ArmedOnce ==
    /\ []C17_AwaitingFirstMove
    /\ [][ (InSession /\ game_state' # None /\ config' = config
               /\ ~game_state'[1].first_click)
            => LET old == GS.board
                   new == game_state'[1].board
               IN  IF GS.first_click
                   THEN /\ \E c \in Cells(config) : LeftClickAt(c[1], c[2])
                        /\ \A c \in Cells(config) : ~RightClickAt(c[1], c[2])
                        /\ Cardinality(MineCells(config, new)) = config.num_mines
                        /\ \A c \in Cells(config) \ MineCells(config, new) :
                              new[c[2]][c[1]].neighbor_mines
                                = Cardinality(Neighbours(config, c)
                                                \cap MineCells(config, new))
                        /\ RevealedCells(config, new) \cap MineCells(config, new) = {}
                   ELSE \A c \in Cells(config) :
                          /\ new[c[2]][c[1]].is_mine = old[c[2]][c[1]].is_mine
                          /\ new[c[2]][c[1]].neighbor_mines
                               = old[c[2]][c[1]].neighbor_mines ]_vars

\* The first left click has armed the mines and revealed safe tiles only,
\* with flags placed on the board
C17_Witness ==
    /\ Armed /\ InProgress
    /\ GS.start_time > 0
    /\ Cardinality(MineCells(config, GS.board)) = config.num_mines
    /\ config.num_mines > 0
    /\ RevealedCells(config, GS.board) # {}
    /\ RevealedCells(config, GS.board) \cap MineCells(config, GS.board) = {}
    /\ FlaggedCells(config, GS.board) # {}

(* C18: within one session is_revealed is monotonic: every step that keeps *)
(* the session keeps every revealed tile revealed; a revealed tile becomes *)
(* hidden again only by a restart, which replaces the session by a fresh   *)
(* one.                                                                    *)
C18_RevealedMonotonic ==
    [][ (InSession /\ game_state' # None /\ config' = config)
        => \/ RevealedCells(config, GS.board)
                \subseteq RevealedCells(config, game_state'[1].board)
           \/ /\ RestartGame
              /\ game_state'[1].first_click
              /\ RevealedCells(config, game_state'[1].board) = {} ]_vars

\* A lost session: tiles shown by reveal_tile, mines shown by
\* reveal_all_mines, a flag still standing
C18_Witness ==
    /\ InSession /\ GS.game_over
    /\ RevealedCells(config, GS.board) \ MineCells(config, GS.board) # {}
    /\ Cardinality(RevealedCells(config, GS.board)
                     \cap MineCells(config, GS.board)) > 1
    /\ FlaggedCells(config, GS.board) # {}

(* C19: a restart from any state of a session (awaiting the first move, in *)
(* progress, lost or won) leaves a session equal to a freshly constructed  *)
(* one for the same settings: every tile unrevealed, unflagged, not a mine *)
(* and with neighbor_mines = 0, first_click true, game_over and game_won   *)
(* false, start_time = 0.                                                  *)
FreshTile ==
    [is_mine |-> FALSE, is_revealed |-> FALSE,
     is_flagged |-> FALSE, neighbor_mines |-> 0]

C19_RestartFresh ==
    [][ RestartGame
        => /\ game_state' = << NewGameState(config') >>
           /\ DOMAIN game_state'[1].board = 0 .. (config.grid_height - 1)
           /\ \A y \in 0 .. (config.grid_height - 1) :
                 /\ DOMAIN game_state'[1].board[y] = 0 .. (config.grid_width - 1)
                 /\ \A x \in 0 .. (config.grid_width - 1) :
                       game_state'[1].board[y][x] = FreshTile
           /\ game_state'[1].first_click
           /\ ~game_state'[1].game_over
           /\ ~game_state'[1].game_won
           /\ game_state'[1].start_time = 0 ]_vars

\* A won session, its clock started and flags on its mines, with the restart
\* button ready to be pressed
C19_Witness ==
    /\ InSession /\ GS.game_won
    /\ GS.start_time > 0
    /\ FlaggedCells(config, GS.board) # {}
    /\ RevealedCells(config, GS.board) # {}
    /\ ENABLED RestartGame

(* C20: on the step that loses the game only mine tiles are force-revealed: *)
(* every tile that is not a mine, flagged or not, keeps the is_revealed    *)
(* and is_flagged values it had before the losing left click.              *)
C20_LossRevealsMinesOnly ==
    [][ (InSession /\ ~GS.game_over
           /\ game_state' # None /\ config' = config
           /\ game_state'[1].game_over)
        => /\ \E c \in MineCells(config, GS.board) : LeftClickAt(c[1], c[2])
           /\ \A c \in Cells(config) \ MineCells(config, GS.board) :
                 LET old == GS.board[c[2]][c[1]]
                     new == game_state'[1].board[c[2]][c[1]]
                 IN  /\ new.is_revealed = old.is_revealed
                     /\ new.is_flagged = old.is_flagged
                     /\ ~new.is_mine ]_vars

\* A lost session with a safe tile flagged and hidden, a safe tile plain and
\* hidden, and every mine shown
C20_Witness ==
    /\ InSession /\ GS.game_over
    /\ MineCells(config, GS.board) \subseteq RevealedCells(config, GS.board)
    /\ \E c \in Cells(config) \ MineCells(config, GS.board) :
          /\ GS.board[c[2]][c[1]].is_flagged
          /\ ~GS.board[c[2]][c[1]].is_revealed
    /\ \E c \in Cells(config) \ MineCells(config, GS.board) :
          /\ ~GS.board[c[2]][c[1]].is_flagged
          /\ ~GS.board[c[2]][c[1]].is_revealed

(* C21: in every state whose outcome is not lost no mine tile is revealed; *)
(* reveal_tile started from a tile that is not a mine reveals no mine; a   *)
(* step on which a mine becomes revealed is a left click on an unflagged   *)
(* mine, which is among the mines revealed, and it sets game_over.         *)
C21_NoMineShown ==
    (InSession /\ ~GS.game_over)
    => /\ RevealedCells(config, GS.board) \cap MineCells(config, GS.board) = {}
       /\ \A c \in Cells(config) \ MineCells(config, GS.board) :
             RevealedCells(config, reveal_tile(config, GS.board, c[1], c[2]))
               \cap MineCells(config, GS.board) = {}

C21_MineShownOnlyByLoss ==
    /\ []C21_NoMineShown
    /\ [][ (InSession /\ game_state' # None /\ config' = config
               /\ ~GS.first_click /\ ~game_state'[1].first_click
               /\ ~(RevealedCells(config, game_state'[1].board)
                       \cap MineCells(config, GS.board)
                     \subseteq RevealedCells(config, GS.board)))
            => /\ game_state'[1].game_over
               /\ \E c \in MineCells(config, GS.board) :
                     /\ ~GS.board[c[2]][c[1]].is_flagged
                     /\ ~GS.board[c[2]][c[1]].is_revealed
                     /\ game_state'[1].board[c[2]][c[1]].is_revealed
                     /\ LeftClickAt(c[1], c[2]) ]_vars

\* A session in progress after a cascade: several tiles shown, one of them
\* next to a mine, every mine hidden
C21_Witness ==
    /\ Armed /\ InProgress
    /\ MineCells(config, GS.board) # {}
    /\ Cardinality(RevealedCells(config, GS.board)) > 1
    /\ RevealedCells(config, GS.board) \cap MineCells(config, GS.board) = {}
    /\ \E c \in RevealedCells(config, GS.board) :
          Neighbours(config, c) \cap MineCells(config, GS.board) # {}

(* C22: a session is never lost after all its safe tiles were uncovered:   *)
(* on every step that sets game_over, at least one tile that is not a mine *)
(* was still unrevealed before the step.                                   *)
C22_NoLossAfterAllSafeShown ==
    [][ (InSession /\ ~GS.game_over
           /\ game_state' # None /\ config' = config
           /\ game_state'[1].game_over)
        => ~AllSafeRevealed(config, GS.board) ]_vars

(* C23: game_over and game_won are never both true, and within a session   *)
(* neither returns to false once set: a step that clears one of them is a  *)
(* restart, which leaves a fresh session.                                  *)
C23_Exclusive ==
    InSession => ~(GS.game_over /\ GS.game_won)

C23_OutcomeExclusiveStable ==
    /\ []C23_Exclusive
    /\ [][ (InSession /\ game_state' # None /\ config' = config
               /\ \/ GS.game_over /\ ~game_state'[1].game_over
                  \/ GS.game_won /\ ~game_state'[1].game_won)
            => /\ RestartGame
               /\ game_state' = << NewGameState(config) >> ]_vars

\* A lost session whose safe tiles are all revealed, after Game.update has
\* run on it
C23_Witness ==
    /\ InSession /\ GS.game_over /\ ~GS.game_won
    /\ AllSafeRevealed(config, GS.board)
    /\ pc = "render"

====
